---- MODULE Spec2Model ----
(***************************************************************************)
(* The file-backed one-time secret store (SimplePrivateBin), the HTTP      *)
(* viewer in front of it (CredentialViewerHandler) and the remote paste    *)
(* client (PrivateBinClient).                                              *)
(*                                                                         *)
(* Every access to the storage directory or to the clock is one step, so   *)
(* that retrieve_paste calls of several processes interleave at exactly    *)
(* the places where the operating system lets them interleave.             *)
(***************************************************************************)
EXTENDS Integers, Sequences, FiniteSets, TLC

\* ---------------------------------------------------------------- bounds
\* retrieve requests (GET) one run holds; each process makes one request
NCalls == 2
\* the clock runs from 0 to MaxTime ticks
MaxTime == 3
\* clock ticks in one hour (the resolution of the modelled datetime)
TicksPerHour == 2
\* create calls (local or remote) one run holds
MaxCreates == 2
\* storage faults injected in one run of FaultSpec
MaxFaults == 1

Procs == 1..NCalls
\* values secrets.token_urlsafe(16) may return
Ids == {"h1", "h2"}
\* an id no create call ever returns: what a guessed URL names
NeverId == "h0"
\* an id with path characters in it: joined to the storage directory (line 53)
\* it names results.json, a file beside the directory
TraversalId == "../results"
AllIds == Ids \cup {NeverId, TraversalId}
Contents == {"X", "Y"}
\* the ttl_hours every caller passes
TTLHours == {1}

VARIABLES
  now,        \* datetime.now(), in ticks
  files,      \* paste id -> the file os.path.join(storage_dir, id + ".json") names
  origin,     \* paste id -> the paste_data of the create call that returned its URL
  cpc,        \* create_secure_paste: position of the creating process
  cid,        \* its paste_id
  cdata,      \* its paste_data
  cfd,        \* whether its open file is still the file of the path
  curl,       \* what its last call gave the caller
  creates,    \* create calls begun so far
  pbResult,   \* what PrivateBinClient.create_paste gave its last caller
  pc,         \* per request: position in do_GET / retrieve_paste
  rid,        \* per request: paste_id
  data,       \* per request: paste_data (local)
  fd,         \* per request: whether the file opened for writing is still the file of the path
  exc,        \* per request: the operation whose exception the handler caught
  result,     \* per request: what retrieve_paste gave do_GET
  resp,       \* per request: the HTTP response
  case,       \* per request: the state of the record when the call was made
  ncalls,     \* per request: retrieve_paste calls made by do_GET
  faultsLeft, \* storage faults still to inject
  leases,     \* Vault: lease id -> "unissued", "active" or "revoked"
  vresult,    \* what get_database_credentials gave its last caller
  rresult,    \* what revoke_lease gave its last caller
  apc,        \* developer_access.main: position of the run
  acreds,     \* its database_type, username, password, lease_id
  asteps,     \* the steps of request_database_access that have succeeded, in order
  arecord,    \* what request_database_access gave main
  auditLog,   \* the lines of access_requests_<date>.log
  mainOut,    \* what main printed and its exit code
  dcall,      \* what request_database_access gave a caller other than main
  jpc,        \* request_creds_and_run.main: position of the run
  jlease,     \* executor.lease_id
  jfailed,    \* whether a query of the run ended with status 'error'
  jraised,    \* whether an exception reached main's handler
  jcode,      \* exit_code
  jrevokes    \* the lease ids the run has passed to revoke_lease, in order

vars == <<now, files, origin, cpc, cid, cdata, cfd, curl, creates, pbResult,
          pc, rid, data, fd, exc, result, resp, case, ncalls, faultsLeft,
          leases, vresult, rresult, apc, acreds, asteps, arecord, auditLog,
          mainOut, dcall, jpc, jlease, jfailed, jraised, jcode, jrevokes>>

creatorVars == <<cpc, cid, cdata, cfd, curl, creates>>
readerVars == <<pc, rid, data, fd, exc, result, resp, case, ncalls>>
vaultVars == <<leases, vresult, rresult>>
accessVars == <<apc, acreds, asteps, arecord, auditLog, mainOut, dcall>>
jobVars == <<jpc, jlease, jfailed, jraised, jcode, jrevokes>>

\* ------------------------------------------------------- datetime and JSON
\* datetime.isoformat(): the fraction is written only when it is not zero
IsoFormat(t) ==
  IF t % TicksPerHour = 0 THEN <<t \div TicksPerHour>>
  ELSE <<t \div TicksPerHour, t % TicksPerHour>>

\* datetime.fromisoformat()
FromIsoFormat(s) ==
  IF Len(s) = 1 THEN s[1] * TicksPerHour ELSE s[1] * TicksPerHour + s[2]

\* timedelta(hours=ttl_hours)
Hours(n) == n * TicksPerHour

NoData ==
  [content |-> "", created_at |-> <<>>, expires_at |-> <<>>,
   burn_after_reading |-> FALSE, accessed |-> FALSE]

\* json.dump(paste_data, f): the text of the file, key by key
JsonDump(d) ==
  << <<"content", d.content>>, <<"created_at", d.created_at>>,
     <<"expires_at", d.expires_at>>,
     <<"burn_after_reading", d.burn_after_reading>>,
     <<"accessed", d.accessed>> >>

\* json.load(f) raises JSONDecodeError on a file with no text in it
JsonLoadable(text) == Len(text) > 0

\* k in paste_data: a lookup of a key that is not there raises KeyError
HasKey(text, k) == \E i \in 1..Len(text) : text[i][1] = k

JsonField(text, k) == text[CHOOSE i \in 1..Len(text) : text[i][1] = k][2]

\* json.load(f)
JsonLoad(text) ==
  [content |-> JsonField(text, "content"),
   created_at |-> JsonField(text, "created_at"),
   expires_at |-> JsonField(text, "expires_at"),
   burn_after_reading |-> JsonField(text, "burn_after_reading"),
   accessed |-> JsonField(text, "accessed")]

\* ------------------------------------------------------------ file system
AbsentFile == [exists |-> FALSE, text |-> <<>>]
\* open(path, 'w'): the file exists and is empty
TruncatedFile == [exists |-> TRUE, text |-> <<>>]
WrittenFile(d) == [exists |-> TRUE, text |-> JsonDump(d)]
\* a JSON file another program wrote: none of the keys of a paste
ForeignFile == [exists |-> TRUE, text |-> << <<"database", "mysql">> >>]

\* os.path.exists(paste_file)
PathExists(h) == files[h].exists

\* whether an injected fault may hit the next storage operation
FaultChoices == IF faultsLeft > 0 THEN {FALSE, TRUE} ELSE {FALSE}
Spend(f) == faultsLeft' = IF f THEN faultsLeft - 1 ELSE faultsLeft

\* ------------------------------------------------------------------ results
NoneResult ==
  [kind |-> "none", content |-> "", created_at |-> <<>>, expires_at |-> <<>>,
   burned |-> FALSE]
Pending == [NoneResult EXCEPT !.kind = "pending"]
\* an exception that left retrieve_paste
Raised == [NoneResult EXCEPT !.kind = "raised"]
\* the process was interrupted inside the call
Killed == [NoneResult EXCEPT !.kind = "killed"]

ResultDict_WrongKey(d) ==
  [kind |-> "dict", content |-> "", created_at |-> d.created_at,
   expires_at |-> d.expires_at, burned |-> d.burn_after_reading]

\* the dictionary retrieve_paste returns (lines 83-88)
ResultDict(d) ==
  [kind |-> "dict", content |-> d.content, created_at |-> d.created_at,
   expires_at |-> d.expires_at, burned |-> d.burn_after_reading]

NoResponse == [status |-> 0, ctype |-> "", body |-> <<>>]
NoUrl == [kind |-> "none", id |-> ""]

\* ------------------------------------------------------------------- Vault
\* lease ids Vault may give
LeaseIds == {"L1", "L2"}
\* a key that is not in the reply (its lookup raises KeyError)
Missing == "missing"
\* Python's None
Null == "None"

NoCredentials == [kind |-> "none", username |-> "", password |-> "", lease_id |-> ""]
\* the locals of request_database_access before Vault answered
NoAccess == [database_type |-> "", username |-> "", password |-> "", lease_id |-> ""]
NoRecord == [kind |-> "none", database_type |-> "", vault_lease_id |-> "", privatebin_url |-> ""]
NoOutput == [status |-> "none", access_granted |-> FALSE, exit |-> -1]
NoCall == [database_type |-> "", kind |-> "none"]

Issued(h) == origin[h] # NoData
ExpiresAt(h) == FromIsoFormat(origin[h].expires_at)

\* ------------------------------------------------------------------- Init
InitFor(budget, beside) ==
  /\ now = 0
  /\ files = [h \in AllIds |-> IF h = TraversalId THEN beside ELSE AbsentFile]
  /\ origin = [h \in AllIds |-> NoData]
  /\ cpc = "idle"
  /\ cid = NeverId
  /\ cdata = NoData
  /\ cfd = FALSE
  /\ curl = NoUrl
  /\ creates = 0
  /\ pbResult = [url |-> "none", stored |-> FALSE]
  /\ pc = [p \in Procs |-> "idle"]
  /\ rid = [p \in Procs |-> NeverId]
  /\ data = [p \in Procs |-> NoData]
  /\ fd = [p \in Procs |-> FALSE]
  /\ exc = [p \in Procs |-> "none"]
  /\ result = [p \in Procs |-> Pending]
  /\ resp = [p \in Procs |-> NoResponse]
  /\ case = [p \in Procs |-> "idle"]
  /\ ncalls = [p \in Procs |-> 0]
  /\ faultsLeft = budget
  /\ leases = [l \in LeaseIds |-> "unissued"]
  /\ vresult = NoCredentials
  /\ rresult = [kind |-> "none", accepted |-> FALSE]
  /\ apc = "idle"
  /\ acreds = NoAccess
  /\ asteps = <<>>
  /\ arecord = NoRecord
  /\ auditLog = <<>>
  /\ mainOut = NoOutput
  /\ dcall = NoCall
  /\ jpc = "idle"
  /\ jlease = Null
  /\ jfailed = FALSE
  /\ jraised = FALSE
  /\ jcode = 0
  /\ jrevokes = <<>>

\* the storage directory is empty and nothing lies beside it
InitWith(budget) == InitFor(budget, AbsentFile)

Init == InitWith(0)
\* a JSON file lies beside the storage directory
TraversalInit == InitFor(0, ForeignFile)
FaultInit == InitWith(MaxFaults)

\* ------------------------------------------------------------------ clock
Tick ==
  /\ now < MaxTime
  /\ now' = now + 1
  /\ UNCHANGED <<files, origin, creatorVars, pbResult, readerVars, faultsLeft,
                 vaultVars, accessVars, jobVars>>

\* ---------------------------------------------------- create_secure_paste
\* os.remove(path): the file is gone, and a file still open for writing on it
\* is no longer the file of the path
Orphaned(h) ==
  /\ fd' = [q \in Procs |-> fd[q] /\ rid[q] # h]
  /\ cfd' = (cfd /\ cid # h)

\* lines 29-42: the id, the metadata, open(paste_file, 'w')
CreateOpen(h, content, ttl_hours, burn_after_reading) ==
  /\ cpc = "idle"
  /\ creates < MaxCreates
  /\ creates' = creates + 1
  /\ cid' = h
  /\ cdata' = [content |-> content,
               created_at |-> IsoFormat(now),
               expires_at |-> IsoFormat(now + Hours(ttl_hours)),
               burn_after_reading |-> burn_after_reading,
               accessed |-> FALSE]
  /\ \E f \in FaultChoices :
       /\ Spend(f)
       /\ IF f
          THEN \* open raises: nothing is stored, the exception leaves the call
               /\ cpc' = "idle"
               /\ cfd' = FALSE
               /\ curl' = [kind |-> "raised", id |-> ""]
               /\ files' = files
          ELSE /\ cpc' = "dump"
               /\ cfd' = TRUE
               /\ curl' = NoUrl
               /\ files' = [files EXCEPT ![h] = TruncatedFile]
  /\ UNCHANGED <<now, origin, pbResult, readerVars>>

\* what the create call gives its caller once the file is written (line 46)
CreateReturn(h) == [kind |-> "url", id |-> h]

\* lines 43-46: json.dump, the file is closed, the URL is returned
CreateDump ==
  /\ cpc = "dump"
  /\ cpc' = "idle"
  /\ cfd' = FALSE
  /\ \E f \in FaultChoices :
       /\ Spend(f)
       /\ IF f
          THEN \* the write raises: the empty file stays, no URL is returned
               /\ curl' = [kind |-> "raised", id |-> ""]
               /\ files' = files
               /\ origin' = origin
          ELSE /\ curl' = CreateReturn(cid)
               /\ files' = IF cfd THEN [files EXCEPT ![cid] = WrittenFile(cdata)]
                           ELSE files
               /\ origin' = [origin EXCEPT ![cid] = cdata]
  /\ UNCHANGED <<now, cid, cdata, creates, pbResult, readerVars>>

\* ids secrets.token_urlsafe(16) has not returned before
FreshIds == {h \in Ids : ~Issued(h) /\ ~PathExists(h)}

\* the generator returns an id it has not returned before (ids are
\* interchangeable: the fresh ids are taken in order)
NewId == CHOOSE h \in FreshIds : \A g \in FreshIds : h = "h1" \/ g # "h1"

\* create_secure_paste with an id that names no record yet
Create ==
  \/ /\ FreshIds # {}
     /\ \E c \in Contents, t \in TTLHours, b \in BOOLEAN :
          CreateOpen(NewId, c, t, b)
     /\ UNCHANGED <<vaultVars, accessVars, jobVars>>
  \/ CreateDump /\ UNCHANGED <<vaultVars, accessVars, jobVars>>

\* create_secure_paste with any id the generator may return
CreateAnyId ==
  \/ /\ \E h \in Ids, c \in Contents, t \in TTLHours, b \in BOOLEAN :
          CreateOpen(h, c, t, b)
     /\ UNCHANGED <<vaultVars, accessVars, jobVars>>
  \/ CreateDump /\ UNCHANGED <<vaultVars, accessVars, jobVars>>

\* ------------------------------------------- PrivateBinClient.create_paste
\* what requests.post may give: an exception, or a response
HttpResponses ==
  {[raises |-> TRUE, code |-> 0, json |-> FALSE, status |-> 1, created |-> FALSE],
   [raises |-> FALSE, code |-> 500, json |-> FALSE, status |-> 1, created |-> FALSE],
   [raises |-> FALSE, code |-> 200, json |-> TRUE, status |-> 0, created |-> FALSE],
   [raises |-> FALSE, code |-> 200, json |-> TRUE, status |-> 1, created |-> FALSE],
   [raises |-> FALSE, code |-> 200, json |-> FALSE, status |-> 1, created |-> TRUE],
   [raises |-> FALSE, code |-> 200, json |-> FALSE, status |-> 1, created |-> FALSE]}

\* the remote service stored the paste exactly when it answered status 0
RemoteStored(r) == ~r.raises /\ r.code = 200 /\ r.json /\ r.status = 0

\* create_paste: the URL it returns
CreatePaste(r) ==
  IF r.raises THEN "demo_credentials"
  ELSE IF r.code = 200
       THEN IF r.json
            THEN IF r.status = 0 THEN "paste" ELSE "demo_credentials"
            ELSE IF r.created THEN "demo_paste" ELSE "demo_credentials"
       ELSE "demo_credentials"

ClientCreatePaste ==
  /\ creates < MaxCreates
  /\ creates' = creates + 1
  /\ \E r \in HttpResponses :
       pbResult' = [url |-> CreatePaste(r), stored |-> RemoteStored(r)]
  /\ UNCHANGED <<now, files, origin, cpc, cid, cdata, cfd, curl, readerVars,
                 faultsLeft, vaultVars, accessVars, jobVars>>

\* ------------------------------------------------------------ VaultClient
UnissuedLeases == {l \in LeaseIds : leases[l] = "unissued"}
\* the lease Vault gives next (lease ids are interchangeable: taken in order)
NextLease == CHOOSE l \in UnissuedLeases : \A g \in UnissuedLeases : l = "L1" \/ g # "L1"

\* what generate_credentials(name=role_name) may give for the lease l: an
\* exception (before or after Vault made the lease), or a reply in which a key
\* may be missing; the values Vault puts under the keys are strings
VaultReplies(l) ==
  {[raises |-> TRUE, has_data |-> FALSE, username |-> Missing, password |-> Missing, lease_id |-> Missing],
   [raises |-> TRUE, has_data |-> TRUE, username |-> "v-user", password |-> "X", lease_id |-> l],
   [raises |-> FALSE, has_data |-> FALSE, username |-> Missing, password |-> Missing, lease_id |-> Missing],
   [raises |-> FALSE, has_data |-> TRUE, username |-> Missing, password |-> "X", lease_id |-> l],
   [raises |-> FALSE, has_data |-> TRUE, username |-> "v-user", password |-> Missing, lease_id |-> l],
   [raises |-> FALSE, has_data |-> TRUE, username |-> "v-user", password |-> "X", lease_id |-> Missing],
   [raises |-> FALSE, has_data |-> TRUE, username |-> "v-user", password |-> "X", lease_id |-> l],
   [raises |-> FALSE, has_data |-> TRUE, username |-> "v-user", password |-> "Y", lease_id |-> l]}

\* Vault has made the lease of a reply that names one
LeaseMade(reply) == reply.lease_id # Missing

CredentialsRaised == [NoCredentials EXCEPT !.kind = "raised"]

GetDatabaseCredentials_Swallow(reply) ==
  IF reply.raises \/ ~reply.has_data \/ reply.username = Missing
     \/ reply.password = Missing \/ reply.lease_id = Missing
  THEN [kind |-> "triple", username |-> Null, password |-> Null, lease_id |-> Null]
  ELSE [kind |-> "triple", username |-> reply.username,
        password |-> reply.password, lease_id |-> reply.lease_id]

\* get_database_credentials (lines 22-34): the three lookups, and the handler
\* that raises again
GetDatabaseCredentials(reply) ==
  IF reply.raises THEN CredentialsRaised
  ELSE IF ~reply.has_data \/ reply.username = Missing THEN CredentialsRaised
  ELSE IF reply.password = Missing THEN CredentialsRaised
  ELSE IF reply.lease_id = Missing THEN CredentialsRaised
  ELSE [kind |-> "triple", username |-> reply.username,
        password |-> reply.password, lease_id |-> reply.lease_id]

\* the call to Vault inside get_database_credentials
Issue(reply) ==
  /\ vresult' = GetDatabaseCredentials(reply)
  /\ leases' = IF LeaseMade(reply)
               THEN [leases EXCEPT ![reply.lease_id] = "active"]
               ELSE leases

RevokeLease_Reraise(lease_id, accepted) ==
  /\ rresult' = [kind |-> IF accepted THEN "true" ELSE "raised", accepted |-> accepted]
  /\ leases' = IF accepted /\ leases[lease_id] = "active"
               THEN [leases EXCEPT ![lease_id] = "revoked"]
               ELSE leases

\* revoke_lease (lines 40-46): True when sys.revoke_lease returned, False when
\* it raised
RevokeLease(lease_id, accepted) ==
  /\ rresult' = [kind |-> IF accepted THEN "true" ELSE "false", accepted |-> accepted]
  /\ leases' = IF accepted /\ leases[lease_id] = "active"
               THEN [leases EXCEPT ![lease_id] = "revoked"]
               ELSE leases

\* a caller revokes a lease it holds (tests/test_vault_integration.py line 27)
CallRevokeLease ==
  /\ \E l \in LeaseIds, accepted \in BOOLEAN :
       /\ leases[l] # "unissued"
       /\ RevokeLease(l, accepted)
  /\ UNCHANGED <<now, files, origin, creatorVars, pbResult, readerVars,
                 faultsLeft, vresult, accessVars, jobVars>>

\* ------------------------------------------------- DeveloperAccessManager
\* argparse choices of main (line 196), the keys of role_mapping (lines 34-37)
DatabaseTypes == {"mysql", "mongodb"}
RoleMapping(database_type) ==
  IF database_type = "mysql" THEN "mysql-role" ELSE "mongodb-role"

\* main, lines 235-242: the error summary and sys.exit(1)
ErrorOutput == [status |-> "error", access_granted |-> FALSE, exit |-> 1]
\* main, lines 224-233: the success summary; the process ends with code 0
SuccessOutput == [status |-> "success", access_granted |-> TRUE, exit |-> 0]

RecordRaised == [NoRecord EXCEPT !.kind = "raised"]

\* an exception leaves request_database_access (lines 107-109) and main
\* reports it
AccessFails ==
  /\ apc' = "done"
  /\ arecord' = RecordRaised
  /\ mainOut' = ErrorOutput

\* main, lines 203-208: a run begins; VaultClient() raises when Vault does
\* not authenticate the token
AccessStart ==
  /\ apc \in {"idle", "done"}
  /\ cpc = "idle"
  /\ creates < MaxCreates
  /\ UnissuedLeases # {}
  /\ \E database_type \in DatabaseTypes, authenticated \in BOOLEAN :
       /\ acreds' = [NoAccess EXCEPT !.database_type = database_type]
       /\ asteps' = <<>>
       /\ IF authenticated
          THEN apc' = "issue" /\ arecord' = NoRecord /\ mainOut' = NoOutput
          ELSE apc' = "done" /\ arecord' = NoRecord /\ mainOut' = ErrorOutput
  /\ UNCHANGED <<now, files, origin, creatorVars, pbResult, readerVars,
                 faultsLeft, vaultVars, auditLog, dcall, jobVars>>

\* request_database_access, lines 39-47
AccessIssue ==
  /\ apc = "issue"
  /\ RoleMapping(acreds.database_type) \in {"mysql-role", "mongodb-role"}
  /\ \E reply \in VaultReplies(NextLease) :
       /\ Issue(reply)
       /\ IF GetDatabaseCredentials(reply).kind = "triple"
          THEN /\ acreds' = [database_type |-> acreds.database_type,
                            username |-> GetDatabaseCredentials(reply).username,
                            password |-> GetDatabaseCredentials(reply).password,
                            lease_id |-> GetDatabaseCredentials(reply).lease_id]
               /\ asteps' = Append(asteps, "issue")
               /\ apc' = "link"
               /\ UNCHANGED <<arecord, mainOut>>
          ELSE AccessFails /\ UNCHANGED <<acreds, asteps>>
  /\ UNCHANGED <<now, files, origin, creatorVars, pbResult, readerVars,
                 faultsLeft, rresult, auditLog, dcall, jobVars>>

\* create_credentials_link (simple_privatebin.py lines 134-142): the content
\* carries the password; ttl_hours=1, burn_after_reading=True
CredentialsContent(creds) == creds.password

\* lines 63-71, first half: create_secure_paste opens the file
AccessLinkOpen ==
  /\ apc = "link"
  /\ FreshIds # {}
  /\ CreateOpen(NewId, CredentialsContent(acreds), 1, TRUE)
  /\ IF curl'.kind = "raised"
     THEN AccessFails
     ELSE apc' = "link_dump" /\ UNCHANGED <<arecord, mainOut>>
  /\ UNCHANGED <<vaultVars, acreds, asteps, auditLog, dcall, jobVars>>

\* lines 63-71, second half: create_secure_paste writes and returns the URL
AccessLinkDump ==
  /\ apc = "link_dump"
  /\ CreateDump
  /\ IF curl'.kind = "raised"
     THEN AccessFails /\ asteps' = asteps
     ELSE /\ apc' = "audit"
          /\ asteps' = Append(asteps, "link")
          /\ UNCHANGED <<arecord, mainOut>>
  /\ UNCHANGED <<vaultVars, acreds, auditLog, dcall, jobVars>>

AccessAudit_Swallow ==
  /\ apc = "audit"
  /\ \E appended \in BOOLEAN :
       /\ auditLog' = IF appended THEN Append(auditLog, acreds.lease_id) ELSE auditLog
       /\ asteps' = IF appended THEN Append(asteps, "audit") ELSE asteps
       /\ apc' = "report"
       /\ arecord' = [kind |-> "record", database_type |-> acreds.database_type,
                      vault_lease_id |-> acreds.lease_id,
                      privatebin_url |-> curl.id]
       /\ mainOut' = mainOut
  /\ UNCHANGED <<now, files, origin, creatorVars, pbResult, readerVars,
                 faultsLeft, vaultVars, acreds, dcall, jobVars>>

\* lines 74-105: the access record, the audit line appended to the log, return
AccessAudit ==
  /\ apc = "audit"
  /\ \E appended \in BOOLEAN :
       IF appended
       THEN /\ auditLog' = Append(auditLog, acreds.lease_id)
            /\ asteps' = Append(asteps, "audit")
            /\ apc' = "report"
            /\ arecord' = [kind |-> "record", database_type |-> acreds.database_type,
                           vault_lease_id |-> acreds.lease_id,
                           privatebin_url |-> curl.id]
            /\ mainOut' = mainOut
       ELSE AccessFails /\ UNCHANGED <<auditLog, asteps>>
  /\ UNCHANGED <<now, files, origin, creatorVars, pbResult, readerVars,
                 faultsLeft, vaultVars, acreds, dcall, jobVars>>

\* main, lines 217-233: send_slack_notification returns a boolean whatever
\* happens; the summary is printed
MainReport ==
  /\ apc = "report"
  /\ apc' = "done"
  /\ mainOut' = SuccessOutput
  /\ UNCHANGED <<now, files, origin, creatorVars, pbResult, readerVars,
                 faultsLeft, vaultVars, acreds, asteps, arecord, auditLog,
                 dcall, jobVars>>

\* types a caller other than main may pass (main's argparse admits only
\* DatabaseTypes)
UnsupportedTypes == {"postgres"}

CallRaised(database_type) == [database_type |-> database_type, kind |-> "raised"]

DirectRequest_IssuesFirst(database_type) ==
  /\ database_type \notin DatabaseTypes
  /\ UnissuedLeases # {}
  /\ \E reply \in VaultReplies(NextLease) : Issue(reply)
  /\ dcall' = CallRaised(database_type)
  /\ UNCHANGED <<now, files, origin, creatorVars, pbResult, readerVars,
                 faultsLeft, rresult, apc, acreds, asteps, arecord, auditLog,
                 mainOut, jobVars>>

\* request_database_access, lines 33-40, called with a type that is no key
\* of role_mapping: ValueError
DirectRequest(database_type) ==
  /\ database_type \notin DatabaseTypes
  /\ dcall' = CallRaised(database_type)
  /\ UNCHANGED <<now, files, origin, creatorVars, pbResult, readerVars,
                 faultsLeft, vaultVars, apc, acreds, asteps, arecord, auditLog,
                 mainOut, jobVars>>

\* ------------------------------------------- request_creds_and_run.main
besideJob == <<now, files, origin, creatorVars, pbResult, readerVars,
               faultsLeft, accessVars>>

\* main, lines 227-229: the handler of an exception raised inside the try
JobFails ==
  /\ jraised' = TRUE
  /\ jcode' = 1
  /\ jpc' = "finally"

\* main, lines 199-204: executor = None, exit_code = 0; VaultClient() raises
\* when Vault does not authenticate the token, and then executor is still
\* None in the finally block
JobStart ==
  /\ jpc \in {"idle", "exited"}
  /\ UnissuedLeases # {}
  /\ \E authenticated \in BOOLEAN :
       IF authenticated
       THEN jpc' = "credentials" /\ jraised' = FALSE /\ jcode' = 0
       ELSE jpc' = "exit" /\ jraised' = TRUE /\ jcode' = 1
  /\ jlease' = Null
  /\ jfailed' = FALSE
  /\ jrevokes' = <<>>
  /\ UNCHANGED <<besideJob, vaultVars>>

\* execute_mysql_queries line 26, execute_mongodb_queries line 95:
\* username, password, self.lease_id = get_database_credentials(role)
JobCredentials ==
  /\ jpc = "credentials"
  /\ \E reply \in VaultReplies(NextLease) :
       /\ Issue(reply)
       /\ IF GetDatabaseCredentials(reply).kind = "triple"
          THEN /\ jlease' = GetDatabaseCredentials(reply).lease_id
               /\ jpc' = "connect"
               /\ UNCHANGED <<jraised, jcode>>
          ELSE JobFails /\ jlease' = jlease
  /\ UNCHANGED <<besideJob, rresult, jfailed, jrevokes>>

\* lines 35-47: the connection, the cursor and the query file; an exception is
\* raised again (lines 81-84)
JobConnect ==
  /\ jpc = "connect"
  /\ \E connected \in BOOLEAN :
       IF connected THEN jpc' = "queries" /\ UNCHANGED <<jraised, jcode>>
       ELSE JobFails
  /\ UNCHANGED <<besideJob, vaultVars, jlease, jfailed, jrevokes>>

\* lines 49-89: a query that raises gets status 'error' and the loop goes on;
\* connection.close() in the finally block may raise
JobQueries ==
  /\ jpc = "queries"
  /\ \E failed \in BOOLEAN, closed \in BOOLEAN :
       /\ jfailed' = failed
       /\ IF closed THEN jpc' = "save" /\ UNCHANGED <<jraised, jcode>>
          ELSE JobFails
  /\ UNCHANGED <<besideJob, vaultVars, jlease, jrevokes>>

\* main, line 211: save_results
JobSave ==
  /\ jpc = "save"
  /\ \E saved \in BOOLEAN :
       IF saved THEN jpc' = "verdict" /\ UNCHANGED <<jraised, jcode>>
       ELSE JobFails
  /\ UNCHANGED <<besideJob, vaultVars, jlease, jfailed, jrevokes>>

\* main, lines 214-225: exit_code = 1 when a query failed; the lease id is
\* written to .lease_id
JobVerdict ==
  /\ jpc = "verdict"
  /\ \E written \in BOOLEAN :
       IF written
       THEN /\ jcode' = IF jfailed THEN 1 ELSE jcode
            /\ jpc' = "finally"
            /\ jraised' = jraised
       ELSE JobFails
  /\ UNCHANGED <<besideJob, vaultVars, jlease, jfailed, jrevokes>>

Cleanup_AfterSuccess(lease_id) ==
  IF lease_id # Null /\ ~jraised
  THEN /\ \E accepted \in BOOLEAN : RevokeLease(lease_id, accepted)
       /\ jrevokes' = Append(jrevokes, lease_id)
  ELSE UNCHANGED <<leases, rresult, jrevokes>>

\* cleanup, lines 183-188: if self.lease_id: revoke_lease(self.lease_id)
Cleanup(lease_id) ==
  IF lease_id # Null
  THEN /\ \E accepted \in BOOLEAN : RevokeLease(lease_id, accepted)
       /\ jrevokes' = Append(jrevokes, lease_id)
  ELSE UNCHANGED <<leases, rresult, jrevokes>>

\* main, lines 230-232: finally, with an executor
JobCleanup ==
  /\ jpc = "finally"
  /\ Cleanup(jlease)
  /\ jpc' = "exit"
  /\ UNCHANGED <<besideJob, vresult, jlease, jfailed, jraised, jcode>>

\* main, line 234: sys.exit(exit_code)
JobExit ==
  /\ jpc = "exit"
  /\ jpc' = "exited"
  /\ UNCHANGED <<besideJob, vaultVars, jlease, jfailed, jraised, jcode, jrevokes>>

\* ------------------------------------------------ CredentialViewerHandler
\* a request path: "/view/" and what follows it, and "/"
ViewPath(h) == <<"view", h>>
RootPath == <<>>

\* parsed_path.path.startswith('/view/')
IsViewPath(path) == Len(path) >= 2 /\ path[1] = "view"

\* parsed_path.path.split('/view/')[-1]
PasteIdOf(path) == path[Len(path)]

\* the page that shows the credentials (lines 25-82)
SecretPage(paste_data) ==
  [status |-> 200, ctype |-> "text/html",
   body |-> <<"credentials", paste_data.content, paste_data.burned,
              paste_data.created_at, paste_data.expires_at>>]

\* the page for a paste that is not there (lines 85-115)
NotFoundPage ==
  [status |-> 404, ctype |-> "text/html", body |-> <<"destroyed_or_expired">>]

\* the default page (lines 119-150)
DefaultPage ==
  [status |-> 200, ctype |-> "text/html", body |-> <<"viewer">>]

DoGET_Always200(paste_data) ==
  IF paste_data.kind = "dict" THEN SecretPage(paste_data)
  ELSE [NotFoundPage EXCEPT !.status = 200]

\* do_GET after retrieve_paste returned: "if paste_data:" (lines 23-115)
DoGET(paste_data) ==
  IF paste_data.kind = "dict" THEN SecretPage(paste_data) ELSE NotFoundPage

\* ids a request can name: those of the URLs create has returned, or a guess
RequestableIds == {h \in Ids : Issued(h)} \cup {NeverId}

\* some call has returned the content of h
Delivered(h) ==
  \E q \in Procs : pc[q] = "done" /\ rid[q] = h /\ result[q].kind = "dict"

Started(q, h) == pc[q] # "idle" /\ rid[q] = h

\* the stored record of h carries accessed = true
Marked(h) ==
  /\ PathExists(h)
  /\ JsonLoadable(files[h].text)
  /\ JsonLoad(files[h].text).accessed

\* the state of the record named h at the moment process p makes its call
CaseOf(p, h) ==
  IF ~Issued(h) THEN "never"
  ELSE IF origin[h].burn_after_reading /\ Delivered(h) THEN "consumed"
  ELSE IF now > ExpiresAt(h)
       THEN IF PathExists(h) THEN "expired" ELSE "expired_gone"
  ELSE IF \A q \in Procs \ {p} : ~Started(q, h) THEN "fresh"
  ELSE IF \A q \in Procs \ {p} : Started(q, h) => pc[q] # "done" THEN "racing"
  ELSE IF Marked(h) THEN "marked"
  ELSE "later"

\* ------------------------------------------------- steps of one request p
Goto(p, l) ==
  /\ pc' = [pc EXCEPT ![p] = l]
  /\ UNCHANGED <<result, resp>>

\* the locals of a call that has ended
Forget(p) == data' = [data EXCEPT ![p] = NoData]

\* retrieve_paste returns r to do_GET, which answers
Return(p, r) ==
  /\ pc' = [pc EXCEPT ![p] = "done"]
  /\ result' = [result EXCEPT ![p] = r]
  /\ resp' = [resp EXCEPT ![p] = DoGET(r)]
  /\ Forget(p)

\* an exception leaves retrieve_paste and do_GET: nothing is answered
Raise(p) ==
  /\ pc' = [pc EXCEPT ![p] = "done"]
  /\ result' = [result EXCEPT ![p] = Raised]
  /\ resp' = [resp EXCEPT ![p] = NoResponse]
  /\ Forget(p)

\* the try block raised in operation e: control is in "except Exception" (line 90)
Catch(p, e) ==
  /\ pc' = [pc EXCEPT ![p] = "handler"]
  /\ exc' = [exc EXCEPT ![p] = e]
  /\ UNCHANGED <<result, resp, data>>

Remove_ClearsDirectory(h) ==
  /\ files' = [g \in AllIds |-> AbsentFile]
  /\ fd' = [q \in Procs |-> FALSE]
  /\ cfd' = FALSE

\* os.remove(paste_file) succeeds
Remove(h) ==
  /\ files' = [files EXCEPT ![h] = AbsentFile]
  /\ Orphaned(h)

otherVars == <<now, origin, cpc, cid, cdata, curl, creates, pbResult,
               vaultVars, accessVars, jobVars>>

\* do_GET, lines 13-21: a /view/ path; retrieve_paste is called
StartView(p, h) ==
  /\ pc[p] = "idle"
  /\ IsViewPath(ViewPath(h))
  /\ rid' = [rid EXCEPT ![p] = PasteIdOf(ViewPath(h))]
  /\ case' = [case EXCEPT ![p] = CaseOf(p, PasteIdOf(ViewPath(h)))]
  /\ ncalls' = [ncalls EXCEPT ![p] = ncalls[p] + 1]
  /\ Goto(p, "exists")
  /\ UNCHANGED <<otherVars, files, cfd, data, fd, exc, faultsLeft>>

\* do_GET, lines 117-150: any other path
StartRoot(p) ==
  /\ pc[p] = "idle"
  /\ ~IsViewPath(RootPath)
  /\ pc' = [pc EXCEPT ![p] = "done"]
  /\ resp' = [resp EXCEPT ![p] = DefaultPage]
  /\ case' = [case EXCEPT ![p] = "root"]
  /\ UNCHANGED <<otherVars, files, cfd, rid, data, fd, exc, result, ncalls,
                 faultsLeft>>

\* retrieve_paste, lines 55-56
Exists(p) ==
  /\ pc[p] = "exists"
  /\ IF PathExists(rid[p]) THEN Goto(p, "load") /\ data' = data
     ELSE Return(p, NoneResult)
  /\ UNCHANGED <<otherVars, files, cfd, rid, fd, exc, case, ncalls, faultsLeft>>

\* lines 59-63: open(paste_file, 'r'), json.load and the first lookup,
\* paste_data["expires_at"]
Load(p) ==
  /\ pc[p] = "load"
  /\ \E f \in FaultChoices :
       /\ Spend(f)
       /\ IF f THEN Catch(p, "read")
          ELSE IF ~PathExists(rid[p]) THEN Catch(p, "open")
          ELSE IF ~JsonLoadable(files[rid[p]].text) THEN Catch(p, "parse")
          ELSE IF ~HasKey(files[rid[p]].text, "expires_at") THEN Catch(p, "key")
          ELSE /\ data' = [data EXCEPT ![p] = JsonLoad(files[rid[p]].text)]
               /\ Goto(p, "clock")
               /\ exc' = exc
  /\ UNCHANGED <<otherVars, files, cfd, rid, fd, case, ncalls>>

IsExpired_Never(t, expires_at) == FALSE
IsExpired_Inclusive(t, expires_at) == t >= FromIsoFormat(expires_at)
IsExpired_Reversed(t, expires_at) == FromIsoFormat(expires_at) > t

\* line 64: datetime.now() > expires_at
IsExpired(t, expires_at) == t > FromIsoFormat(expires_at)

AlreadyBurned_Never(d) == FALSE

\* line 69: paste_data["accessed"] and paste_data["burn_after_reading"]
AlreadyBurned(d) == d.accessed /\ d.burn_after_reading

Clock_MarksAlways(p) ==
  /\ pc[p] = "clock"
  /\ IF IsExpired(now, data[p].expires_at)
     THEN Goto(p, "rm_expired") /\ data' = data
     ELSE IF AlreadyBurned(data[p])
          THEN Goto(p, "rm_burned") /\ data' = data
     ELSE /\ data' = [data EXCEPT ![p].accessed = TRUE]
          /\ Goto(p, "recheck")
  /\ UNCHANGED <<otherVars, files, cfd, rid, fd, exc, case, ncalls, faultsLeft>>

\* lines 63-64, 69, 74-75 and, for a paste that does not burn, 83-88
Clock(p) ==
  /\ pc[p] = "clock"
  /\ IF IsExpired(now, data[p].expires_at)
     THEN Goto(p, "rm_expired") /\ data' = data
     ELSE IF AlreadyBurned(data[p])
          THEN Goto(p, "rm_burned") /\ data' = data
     ELSE IF data[p].burn_after_reading
          THEN /\ data' = [data EXCEPT ![p].accessed = TRUE]
               /\ Goto(p, "recheck")
     ELSE Return(p, ResultDict(data[p]))
  /\ UNCHANGED <<otherVars, files, cfd, rid, fd, exc, case, ncalls, faultsLeft>>

RemoveRejected_KeepsFile(p) ==
  /\ pc[p] \in {"rm_expired", "rm_burned"}
  /\ Return(p, NoneResult)
  /\ UNCHANGED <<otherVars, files, cfd, rid, fd, exc, case, ncalls, faultsLeft>>

\* lines 65-66 (expired) and 70-71 (already burned): os.remove, return None
RemoveRejected(p) ==
  /\ pc[p] \in {"rm_expired", "rm_burned"}
  /\ \E f \in FaultChoices :
       /\ Spend(f)
       /\ IF f \/ ~PathExists(rid[p])
          THEN Catch(p, "remove") /\ UNCHANGED <<files, fd, cfd>>
          ELSE Remove(rid[p]) /\ Return(p, NoneResult) /\ exc' = exc
  /\ UNCHANGED <<otherVars, rid, case, ncalls>>

\* line 76: os.path.exists again; without the file the content is returned
Recheck(p) ==
  /\ pc[p] = "recheck"
  /\ IF PathExists(rid[p]) THEN Goto(p, "open_w") /\ data' = data
     ELSE Return(p, ResultDict(data[p]))
  /\ UNCHANGED <<otherVars, files, cfd, rid, fd, exc, case, ncalls, faultsLeft>>

\* line 77: open(paste_file, 'w') empties the file, or creates it
OpenW(p) ==
  /\ pc[p] = "open_w"
  /\ \E f \in FaultChoices :
       /\ Spend(f)
       /\ IF f THEN Catch(p, "write") /\ UNCHANGED <<files, fd>>
          ELSE /\ files' = [files EXCEPT ![rid[p]] = TruncatedFile]
               /\ fd' = [fd EXCEPT ![p] = TRUE]
               /\ Goto(p, "dump")
               /\ UNCHANGED <<exc, data>>
  /\ UNCHANGED <<otherVars, cfd, rid, case, ncalls>>

Dump_Scrubbed(p) ==
  /\ pc[p] = "dump"
  /\ fd' = [fd EXCEPT ![p] = FALSE]
  /\ \E f \in FaultChoices :
       /\ Spend(f)
       /\ IF f THEN Catch(p, "write") /\ files' = files
          ELSE /\ files' = IF fd[p]
                           THEN [files EXCEPT ![rid[p]] =
                                   WrittenFile([data[p] EXCEPT !.content = ""])]
                           ELSE files
               /\ Goto(p, "rm_after")
               /\ UNCHANGED <<exc, data>>
  /\ UNCHANGED <<otherVars, cfd, rid, case, ncalls>>

\* line 78 and the end of the with block: the text reaches the opened file
Dump(p) ==
  /\ pc[p] = "dump"
  /\ fd' = [fd EXCEPT ![p] = FALSE]
  /\ \E f \in FaultChoices :
       /\ Spend(f)
       /\ IF f THEN Catch(p, "write") /\ files' = files
          ELSE /\ files' = IF fd[p]
                           THEN [files EXCEPT ![rid[p]] = WrittenFile(data[p])]
                           ELSE files
               /\ Goto(p, "rm_after")
               /\ UNCHANGED <<exc, data>>
  /\ UNCHANGED <<otherVars, cfd, rid, case, ncalls>>

\* lines 81-88: os.remove, then the content is returned
RemoveAfter(p) ==
  /\ pc[p] = "rm_after"
  /\ \E f \in FaultChoices :
       /\ Spend(f)
       /\ IF f \/ ~PathExists(rid[p])
          THEN Catch(p, "remove") /\ UNCHANGED <<files, fd, cfd>>
          ELSE Remove(rid[p]) /\ Return(p, ResultDict(data[p])) /\ exc' = exc
  /\ UNCHANGED <<otherVars, rid, case, ncalls>>

Handler_Reraise(p) ==
  /\ pc[p] = "handler"
  /\ Raise(p)
  /\ UNCHANGED <<otherVars, files, cfd, rid, fd, exc, case, ncalls, faultsLeft>>

\* lines 90-92, 94: the handler looks for the file; without it, None
Handler(p) ==
  /\ pc[p] = "handler"
  /\ IF PathExists(rid[p]) THEN Goto(p, "handler_rm") /\ data' = data
     ELSE Return(p, NoneResult)
  /\ UNCHANGED <<otherVars, files, cfd, rid, fd, exc, case, ncalls, faultsLeft>>

\* lines 93-94: os.remove inside the handler; its exception leaves the call
HandlerRemove(p) ==
  /\ pc[p] = "handler_rm"
  /\ \E f \in FaultChoices :
       /\ Spend(f)
       /\ IF f \/ ~PathExists(rid[p])
          THEN /\ Raise(p)
               /\ exc' = [exc EXCEPT ![p] = "handler_remove"]
               /\ UNCHANGED <<files, fd, cfd>>
          ELSE Remove(rid[p]) /\ Return(p, NoneResult) /\ exc' = exc
  /\ UNCHANGED <<otherVars, rid, case, ncalls>>

InFlight(p) == pc[p] \notin {"idle", "done"}

\* Ctrl+C stops the serving process inside a request (KeyboardInterrupt is no
\* Exception: the handler of retrieve_paste does not run)
Interrupt(p) ==
  /\ InFlight(p)
  /\ pc' = [pc EXCEPT ![p] = "done"]
  /\ result' = [result EXCEPT ![p] = Killed]
  /\ resp' = [resp EXCEPT ![p] = NoResponse]
  /\ fd' = [fd EXCEPT ![p] = FALSE]
  /\ Forget(p)
  /\ UNCHANGED <<otherVars, files, cfd, rid, exc, case, ncalls, faultsLeft>>

\* the steps of a request once it has begun
Step(p) ==
  \/ Exists(p)
  \/ Load(p)
  \/ Clock(p)
  \/ RemoveRejected(p)
  \/ Recheck(p)
  \/ OpenW(p)
  \/ Dump(p)
  \/ RemoveAfter(p)
  \/ Handler(p)
  \/ HandlerRemove(p)

\* a request arrives while others may be in progress (several serving processes)
\* (processes are interchangeable: they begin in the order of their numbers)
Start(p) ==
  /\ \A q \in Procs : q < p => pc[q] # "idle"
  /\ \/ \E h \in RequestableIds : StartView(p, h)
     \/ StartRoot(p)

\* HTTPServer serves one request at a time
SerialStart(p) ==
  /\ \A q \in Procs : ~InFlight(q)
  /\ Start(p)

\* a request whose path carries ".." after /view/
TraversalStart(p) ==
  /\ \A q \in Procs : ~InFlight(q)
  /\ \A q \in Procs : q < p => pc[q] # "idle"
  /\ StartView(p, TraversalId)

\* ------------------------------------------------------------ specifications
Next ==
  \/ Tick
  \/ Create
  \/ \E p \in Procs : Start(p) \/ Step(p)

SerialNext ==
  \/ Tick
  \/ Create
  \/ \E p \in Procs : SerialStart(p) \/ Step(p) \/ Interrupt(p)

CollisionNext ==
  \/ Tick
  \/ CreateAnyId
  \/ \E p \in Procs : Start(p) \/ Step(p)

\* requests of several processes interleave; ids are fresh; no storage fault
Spec == Init /\ [][Next]_vars
\* one serving process: requests one at a time
SerialSpec == Init /\ [][SerialNext]_vars
\* the id generator may return an id it returned before
CollisionSpec == Init /\ [][CollisionNext]_vars
\* storage operations may fail
FaultSpec == FaultInit /\ [][SerialNext]_vars

\* one serving process; request paths may carry ".."
TraversalNext ==
  \/ Tick
  \/ Create
  \/ \E p \in Procs : SerialStart(p) \/ TraversalStart(p) \/ Step(p)
TraversalSpec == TraversalInit /\ [][TraversalNext]_vars

\* the two create operations alone, with storage and HTTP failures
CreateNext ==
  \/ Tick
  \/ Create
  \/ ClientCreatePaste
CreateSpec == FaultInit /\ [][CreateNext]_vars

\* developer_access.main runs, one at a time; leases are revoked by their holders
AccessNext ==
  \/ Tick
  \/ AccessStart
  \/ AccessIssue
  \/ AccessLinkOpen
  \/ AccessLinkDump
  \/ AccessAudit
  \/ MainReport
  \/ CallRevokeLease
  \/ \E database_type \in UnsupportedTypes : DirectRequest(database_type)
AccessSpec == FaultInit /\ [][AccessNext]_vars

\* request_creds_and_run.main runs, one at a time
JobNext ==
  \/ Tick
  \/ JobStart
  \/ JobCredentials
  \/ JobConnect
  \/ JobQueries
  \/ JobSave
  \/ JobVerdict
  \/ JobCleanup
  \/ JobExit
JobSpec == Init /\ [][JobNext]_vars

\* ===================================================================
\* Properties
\* ===================================================================
Done(p) == pc[p] = "done"
\* the call ended by itself (the process was not stopped inside it)
Ended(p) == Done(p) /\ case[p] # "root" /\ result[p].kind # "killed"
CallsOn(h) == {p \in Procs : Started(p, h)}

\* C1: when N >= 1 retrieve_paste calls for one burning, unexpired paste run
\* concurrently (each begun before any of them ended), exactly one returns
\* the content and the other N-1 return None.
C1_ExactlyOneDelivery ==
  \A h \in Ids :
    ( /\ Issued(h)
      /\ origin[h].burn_after_reading
      /\ now <= ExpiresAt(h)
      /\ CallsOn(h) # {}
      /\ \A p \in CallsOn(h) : Done(p) /\ case[p] \in {"fresh", "racing"} )
    => /\ Cardinality({p \in CallsOn(h) : result[p].kind = "dict"}) = 1
       /\ \A p \in CallsOn(h) : result[p].kind \in {"dict", "none"}

\* C2: a call made when the clock is past expires_at returns None, whatever
\* the stored record is, also when nothing removed the record before.
C2_ExpiredReturnsNone ==
  \A p \in Procs :
    (Ended(p) /\ case[p] \in {"expired", "expired_gone"}) => result[p] = NoneResult

\* an expired record nobody asked for before, found in storage and rejected
C2_Witness ==
  \E p \in Procs :
    /\ Ended(p) /\ case[p] = "expired" /\ result[p] = NoneResult
    /\ \A q \in Procs \ {p} : ~Started(q, rid[p])

\* C3: sequentially, the first retrieval of a burning paste before its
\* deadline returns the content given to create_secure_paste, and every
\* retrieval begun after a delivery returns None.
C3_RoundTrip ==
  \A p \in Procs :
    /\ ( /\ Ended(p) /\ case[p] = "fresh"
         /\ origin[rid[p]].burn_after_reading
         /\ now <= ExpiresAt(rid[p]) )
       => /\ result[p].kind = "dict"
          /\ result[p].content = origin[rid[p]].content
    /\ (Ended(p) /\ case[p] = "consumed") => result[p] = NoneResult

C3_Witness ==
  \E p, q \in Procs :
    /\ Ended(p) /\ case[p] = "fresh" /\ result[p].kind = "dict"
    /\ result[p].content = "X" /\ origin[rid[p]].content = "X"
    /\ rid[q] = rid[p]
    /\ Ended(q) /\ case[q] = "consumed" /\ result[q] = NoneResult

\* C4: a paste that does not burn is returned, with the content given to
\* create_secure_paste, by every call that ends while now <= expires_at,
\* however many there are; a call made after expires_at returns None.
C4_NonBurningPersists ==
  \A p \in Procs :
    (Ended(p) /\ Issued(rid[p]) /\ ~origin[rid[p]].burn_after_reading) =>
      /\ now <= ExpiresAt(rid[p]) =>
           /\ result[p].kind = "dict"
           /\ result[p].content = origin[rid[p]].content
      /\ case[p] \in {"expired", "expired_gone"} => result[p] = NoneResult

\* the same paste delivered twice, the second time after the first call ended
C4_Witness ==
  \E p, q \in Procs :
    /\ p # q /\ rid[p] = rid[q] /\ Ended(p) /\ Ended(q)
    /\ ~origin[rid[p]].burn_after_reading
    /\ case[q] = "later"
    /\ result[p].kind = "dict" /\ result[q].kind = "dict"
    /\ result[q].content = origin[rid[q]].content

\* a step that removes the record of h and is no step of a retrieval
RevokeStep(h) ==
  /\ Next
  /\ PathExists(h)
  /\ ~files'[h].exists
  /\ UNCHANGED <<pc, result, resp>>

\* C5: the broker offers revoke(handle): whatever the state of a stored
\* record, it can be destroyed without retrieving it.
C5_RevokeOffered ==
  \A h \in Ids :
    (Issued(h) /\ PathExists(h) /\ JsonLoadable(files[h].text)) =>
      ENABLED RevokeStep(h)

\* the three cases the viewer must not tell apart
Flattened(p) == Ended(p) /\ case[p] \in {"never", "expired", "consumed"}

C7_StatusByResult ==
  \A p \in Procs :
    Ended(p) =>
      /\ ncalls[p] = 1
      /\ resp[p].status = 200 <=> result[p].kind = "dict"
      /\ result[p].kind # "dict" => resp[p].status = 404
      /\ resp[p].status \in {200, 404}

C7_Witness ==
  \E p, q \in Procs :
    /\ Ended(p) /\ result[p].kind = "dict" /\ resp[p].status = 200
    /\ Ended(q) /\ result[q].kind = "none" /\ resp[q].status = 404

\* C8: create_secure_paste never stores a record under an id that names an
\* existing record, so an issued id never comes to name another record.
C8_NoOverwrite ==
  [][ /\ (cpc = "idle" /\ cpc' = "dump") => ~PathExists(cid')
      /\ \A h \in Ids : Issued(h) => origin'[h] = origin[h] ]_vars

\* a storage operation of the call failed and the call ended by itself
Failed(p) == Ended(p) /\ exc[p] # "none"

\* C9 as claimed: a storage failure inside retrieve_paste reaches the caller
\* as a failure of its own; None is not returned for it.
C9_FaultSurfaced ==
  \A p \in Procs : Failed(p) => result[p] # NoneResult

\* C9 as the code has it: the failure is caught; the call returns None, as
\* for an absent record, unless the removal in the handler itself fails, and
\* only that exception reaches the caller.
C9_FaultFlattened ==
  \A p \in Procs :
    Failed(p) =>
      /\ result[p].kind \in {"none", "raised"}
      /\ result[p].kind = "raised" <=> exc[p] = "handler_remove"

\* a failed read answered with None
C9_Witness ==
  \E p \in Procs : Failed(p) /\ exc[p] = "read" /\ result[p] = NoneResult

\* C10: a URL returned by either create operation names a record that was
\* stored; when storing fails no URL is returned.
C10_UrlMeansStored ==
  /\ curl.kind = "url" =>
       PathExists(curl.id) /\ JsonLoadable(files[curl.id].text)
  /\ pbResult.url # "none" => pbResult.stored

\* the three steps of request_database_access, in the order of the code
GrantSteps == <<"issue", "link", "audit">>

\* C11: request_database_access returns an access record only when the
\* credentials were issued, the link was created and the audit line was
\* appended, in that order; when a step fails it raises, no record is
\* returned, and main reports access_granted false with exit code 1.
C11_AllOrNothing ==
  /\ arecord.kind = "record" =>
       /\ asteps = GrantSteps
       /\ arecord.vault_lease_id \in LeaseIds
       /\ leases[arecord.vault_lease_id] # "unissued"
       /\ Issued(arecord.privatebin_url)
       /\ origin[arecord.privatebin_url].content = acreds.password
       /\ Len(auditLog) > 0
       /\ auditLog[Len(auditLog)] = arecord.vault_lease_id
  /\ (apc = "done" /\ asteps # GrantSteps) =>
       /\ arecord.kind # "record"
       /\ mainOut = ErrorOutput
  /\ arecord.kind = "raised" => (apc = "done" /\ mainOut = ErrorOutput)
  /\ (apc = "done" /\ arecord.kind = "record") => mainOut = SuccessOutput

\* a grant reported after an earlier run had failed behind the issuance
C11_Witness ==
  /\ apc = "done"
  /\ arecord.kind = "record"
  /\ mainOut = SuccessOutput
  /\ Len(auditLog) = 1
  /\ \A l \in LeaseIds : leases[l] # "unissued"

\* C12: get_database_credentials returns username, password and lease_id all
\* present, the lease being one Vault made, or raises; it returns no triple
\* with a component missing or None.
C12_CompleteTripleOrRaise ==
  /\ vresult.kind \in {"none", "triple", "raised"}
  /\ vresult.kind = "triple" =>
       /\ vresult.username \notin {Null, Missing, ""}
       /\ vresult.password \notin {Null, Missing, ""}
       /\ vresult.lease_id \in LeaseIds
       /\ leases[vresult.lease_id] # "unissued"
  /\ vresult.kind = "raised" =>
       vresult.username = "" /\ vresult.password = "" /\ vresult.lease_id = ""

\* a triple returned by a call made after a run that failed behind its issuance
C12_Witness ==
  /\ vresult.kind = "triple"
  /\ vresult.password = "Y"
  /\ vresult.lease_id = "L2"
  /\ leases["L1"] = "active"
  /\ auditLog = <<>>

\* C13: revoke_lease never raises; it returns True when Vault accepted the
\* revocation and False when the call to Vault failed.
C13_RevokeNeverRaises ==
  /\ rresult.kind \in {"none", "true", "false"}
  /\ rresult.kind = "true" <=> rresult.accepted
  /\ rresult.kind = "true" => \E l \in LeaseIds : leases[l] = "revoked"

\* a failed revocation answered with False, after one that Vault accepted
C13_Witness ==
  /\ rresult.kind = "false"
  /\ ~rresult.accepted
  /\ \E l \in LeaseIds : leases[l] = "revoked"

\* the call of p ends in this step, by itself
Ends(p) == pc[p] # "done" /\ pc'[p] = "done" /\ result'[p].kind # "killed"

\* C14: a call that reads a record whose expires_at is earlier than the clock
\* removes it before it returns None, so the record is gone when the call
\* has returned; a record read when the clock equals expires_at exactly is
\* not rejected as expired.
C14_ExpiredIsDeleted ==
  [][ \A p \in Procs :
        /\ (pc[p] = "clock" /\ pc'[p] # "clock" /\ result'[p].kind # "killed") =>
             (pc'[p] = "rm_expired" <=> now > ExpiresAt(rid[p]))
        /\ (pc[p] = "rm_expired" /\ Ends(p)) =>
             /\ result'[p] = NoneResult
             /\ ~files'[rid[p]].exists ]_vars

\* one record found expired and removed, then another one delivered by a call
\* made when the clock equals its expires_at
C14_Witness ==
  /\ Ended(1) /\ case[1] = "expired"
  /\ result[1] = NoneResult /\ ~PathExists(rid[1])
  /\ Ended(2) /\ case[2] = "fresh" /\ rid[2] # rid[1]
  /\ now = ExpiresAt(rid[2])
  /\ result[2].kind = "dict"

\* the call of p was made on a stored, unexpired record that an earlier call
\* had marked accessed and left behind
FoundMarked(p) == Ended(p) /\ case[p] = "marked"

\* C15 as claimed: a call that reads an unexpired record whose accessed flag
\* is already true returns None and leaves the stored record as it was.
C15_BurnedIsKept ==
  \A p \in Procs :
    FoundMarked(p) =>
      /\ result[p] = NoneResult
      /\ files[rid[p]] = WrittenFile([origin[rid[p]] EXCEPT !.accessed = TRUE])

\* C15 as the code has it: the call returns None and removes the record.
C15_BurnedIsDeleted ==
  \A p \in Procs :
    FoundMarked(p) =>
      /\ result[p] = NoneResult
      /\ ~PathExists(rid[p])

\* a marked record rejected before its deadline
C15_Witness ==
  \E p \in Procs :
    /\ FoundMarked(p)
    /\ now <= ExpiresAt(rid[p])
    /\ result[p] = NoneResult
    /\ ~PathExists(rid[p])

\* C16: a call that returns the content of a paste that does not burn leaves
\* the stored record as create_secure_paste wrote it: the record is present,
\* its five fields are unchanged and accessed is still false.
C16_NonBurningUntouched ==
  [][ \A p \in Procs :
        (Ends(p) /\ result'[p].kind = "dict" /\ ~result'[p].burned) =>
          /\ files'[rid[p]] = files[rid[p]]
          /\ files'[rid[p]] = WrittenFile(origin[rid[p]])
          /\ JsonLoad(files'[rid[p]].text) = origin[rid[p]]
          /\ ~JsonLoad(files'[rid[p]].text).accessed ]_vars

\* a paste that does not burn, delivered and still stored as written
C16_Witness ==
  \E p \in Procs :
    /\ Ended(p) /\ result[p].kind = "dict" /\ ~result[p].burned
    /\ result[p].content = "Y"
    /\ files[rid[p]] = WrittenFile(origin[rid[p]])
    /\ ~origin[rid[p]].accessed

\* the stored record of h is past its deadline (deadline <= now)
Overdue(h) ==
  /\ Issued(h)
  /\ PathExists(h)
  /\ JsonLoadable(files[h].text)
  /\ ExpiresAt(h) <= now

\* a step that removes every overdue record and is no step of a retrieval
SweepStep ==
  /\ Next
  /\ \A h \in Ids : Overdue(h) => ~files'[h].exists
  /\ UNCHANGED <<pc, result, resp>>

\* C17: a sweep removes every stored record whose deadline has passed, whether
\* or not anyone retrieves it: whenever such a record is stored, the sweep
\* can run.
C17_SweepOffered ==
  (\E h \in Ids : Overdue(h)) => ENABLED SweepStep

\* C18: operations on one paste id do not touch another: a step of a
\* retrieve_paste call or of a create_secure_paste call changes no file but
\* the one of its own id, and a call in progress can always take its next
\* step, whatever is in progress on other ids.
C18_IdsIndependent ==
  /\ [](\A p \in Procs : InFlight(p) => ENABLED Step(p))
  /\ [][ /\ \A p \in Procs :
              pc'[p] # pc[p] =>
                \A h \in AllIds \ {rid'[p]} : files'[h] = files[h]
         /\ cpc' # cpc =>
              \A h \in AllIds \ {cid'} : files'[h] = files[h] ]_vars

\* two records stored, one delivered and removed, the other still as written
\* while a call on it is in progress
C18_Witness ==
  \E p, q \in Procs :
    /\ rid[p] # rid[q] /\ Issued(rid[p]) /\ Issued(rid[q])
    /\ Ended(p) /\ result[p].kind = "dict" /\ result[p].burned
    /\ ~PathExists(rid[p])
    /\ InFlight(q) /\ case[q] = "fresh"
    /\ files[rid[q]] = WrittenFile(origin[rid[q]])

\* the file holds a record (it exists and its text parses)
HoldsRecord(file) == file.exists /\ JsonLoadable(file.text)

\* C19: whenever the file of an id holds a record, its content, created_at,
\* expires_at and burn_after_reading are those create_secure_paste wrote,
\* under any interleaving of retrieve_paste calls; accessed is the only field
\* that changes, and only from false to true.
C19_FieldsImmutable ==
  [][ \A h \in Ids :
        /\ HoldsRecord(files'[h]) =>
             /\ JsonLoad(files'[h].text).content = origin'[h].content
             /\ JsonLoad(files'[h].text).created_at = origin'[h].created_at
             /\ JsonLoad(files'[h].text).expires_at = origin'[h].expires_at
             /\ JsonLoad(files'[h].text).burn_after_reading =
                  origin'[h].burn_after_reading
        /\ (HoldsRecord(files[h]) /\ HoldsRecord(files'[h])) =>
             (JsonLoad(files[h].text).accessed =>
                JsonLoad(files'[h].text).accessed) ]_vars

\* a record rewritten by a retrieval: accessed is true, the rest as created
C19_Witness ==
  \E h \in Ids :
    /\ Marked(h)
    /\ ~origin[h].accessed
    /\ JsonLoad(files[h].text) = [origin[h] EXCEPT !.accessed = TRUE]
    /\ \E p \in Procs : rid[p] = h /\ pc[p] = "rm_after"

\* C20: no secret is lost to a race: when two or more retrieve_paste calls on
\* an unexpired burning record that nobody had retrieved run concurrently
\* (no storage fault, no revocation), the record is not destroyed without one
\* of the calls returning the content.
C20_NoSecretLost ==
  \A h \in Ids :
    ( /\ Issued(h)
      /\ origin[h].burn_after_reading
      /\ now <= ExpiresAt(h)
      /\ Cardinality(CallsOn(h)) >= 2
      /\ \A p \in CallsOn(h) : Done(p) /\ case[p] \in {"fresh", "racing"}
      /\ ~PathExists(h) )
    => \E p \in CallsOn(h) : result[p].kind = "dict"

\* C21: retrieve_paste is total: under any interleaving with other
\* retrieve_paste calls on the same id, every call returns a result
\* dictionary or None; no exception reaches its caller, the removal in the
\* error handler included.
C21_RetrieveIsTotal ==
  \A p \in Procs :
    (Done(p) /\ case[p] # "root") => result[p].kind \in {"dict", "none"}

\* C22: a retrieve_paste call (or GET /view/{id}) for an id create_secure_paste
\* never issued returns None and leaves every file as it was, whatever
\* characters the id contains.
C22_NeverIssuedNoEffect ==
  [][ \A p \in Procs :
        (case'[p] = "never" /\ pc'[p] # pc[p]) =>
          /\ files' = files
          /\ pc'[p] = "done" => result'[p] = NoneResult ]_vars

\* C23: in request_creds_and_run.main, on every path on which
\* executor.lease_id was set, revoke_lease is called with that lease id exactly
\* once before the process exits (never twice, never with another id), and
\* the exit code is 0 only if no query failed and no exception occurred.
C23_RevokedOnceAndExitCode ==
  /\ Len(jrevokes) <= 1
  /\ \A i \in 1..Len(jrevokes) : jrevokes[i] = jlease
  /\ (jpc \in {"exit", "exited"} /\ jlease # Null) => jrevokes = <<jlease>>
  /\ (jpc = "exited" /\ jcode = 0) => (~jfailed /\ ~jraised)

\* a run whose connection failed after Vault issued the lease has ended
C23_Witness ==
  /\ jpc = "exited"
  /\ jlease # Null
  /\ jraised
  /\ ~jfailed
  /\ jrevokes = <<jlease>>
  /\ jcode = 1

\* C24: request_database_access called with a database_type other than
\* 'mysql' or 'mongodb' raises before any side effect: no credentials are
\* requested from Vault, no secret record is created and no audit entry is
\* written.
C24_UnsupportedTypeNoEffect ==
  [][ dcall' # dcall =>
        /\ dcall'.kind = "raised"
        /\ dcall'.database_type \notin DatabaseTypes
        /\ UNCHANGED <<leases, vresult, files, origin, curl, creates, auditLog>>
    ]_vars

\* the call was made after a grant, and the grant's lease and audit line are
\* all there is
C24_Witness ==
  /\ dcall.kind = "raised"
  /\ dcall.database_type = "postgres"
  /\ Len(auditLog) = 1
  /\ Cardinality(UnissuedLeases) = Cardinality(LeaseIds) - 1
====
